---- MODULE Spec2Model ----
(***************************************************************************)
(* Growth-Wheat: one growth step of the hidden zones, emerged organs and   *)
(* roots of a wheat plant (growthwheat.simulation.Simulation) and the      *)
(* growth laws it evaluates (growthwheat.model, growthwheat.parameters).   *)
(*                                                                         *)
(* Numbers.  The program computes with floats.  Here a number is an exact  *)
(* rational <<n, d>> in lowest terms with d > 0; +, -, *, / are exact.     *)
(* The only irrational operation of the program is x ** e with a           *)
(* fractional exponent e = p/q: it is evaluated exactly when x is the      *)
(* q-th power of a point of PowGrid and rounded down to the nearest such   *)
(* power otherwise.  A division by zero raises ZeroDivisionError in the    *)
(* program; every law that divides has a companion predicate <law>_raises. *)
(***************************************************************************)
EXTENDS Integers, FiniteSets, Sequences, TLC

\* ------------------------------------------------------------------------
\* Exact rational arithmetic
\* ------------------------------------------------------------------------

Abs(x) == IF x < 0 THEN -x ELSE x

RECURSIVE GCD(_, _)
GCD(a, b) == IF b = 0 THEN a ELSE GCD(b, a % b)

Rat(n, d) ==
    LET g == GCD(Abs(n), Abs(d))
        s == IF d < 0 THEN -1 ELSE 1
    IN  <<(s * n) \div g, (s * d) \div g>>

RI(k) == <<k, 1>>

Zero == RI(0)
One == RI(1)

RNeg(a) == <<-a[1], a[2]>>

RAdd(a, b) ==
    LET g == GCD(a[2], b[2])
    IN  Rat(a[1] * (b[2] \div g) + b[1] * (a[2] \div g), (a[2] \div g) * b[2])

RSub(a, b) == RAdd(a, RNeg(b))

RMul(a, b) ==
    LET g1 == GCD(Abs(a[1]), b[2])
        g2 == GCD(Abs(b[1]), a[2])
    IN  Rat((a[1] \div g1) * (b[1] \div g2), (a[2] \div g2) * (b[2] \div g1))

\* a / b for b # 0 (the callers test b = 0 first: it raises in the program)
RDiv(a, b) ==
    RMul(a, IF b[1] > 0 THEN <<b[2], b[1]>> ELSE <<-b[2], -b[1]>>)

RLt(a, b) == RSub(a, b)[1] < 0
RLe(a, b) == RSub(a, b)[1] <= 0
RIsNeg(a) == a[1] < 0
RIsPos(a) == a[1] > 0

\* Python's max(a, b) and min(a, b)
RMax(a, b) == IF RLt(a, b) THEN b ELSE a
RMin(a, b) == IF RLt(b, a) THEN b ELSE a

RECURSIVE IPow(_, _)
IPow(n, k) == IF k = 0 THEN 1 ELSE n * IPow(n, k - 1)

\* a ** k for a natural number k (a is in lowest terms, and so is the result)
RPowInt(a, k) == <<IPow(a[1], k), IPow(a[2], k)>>

\* The points t whose q-th powers x ** (p/q) is evaluated exactly on.
PowGrid == {Zero, One, RI(2)}

\* x ** e for x >= 0 and a fractional exponent e = <<p, q>> (see the header)
RPow(x, e) ==
    LET below == {t \in PowGrid : RLe(RPowInt(t, e[2]), x)}
        t == CHOOSE u \in below : \A v \in below : RLe(v, u)
    IN  RPowInt(t, e[1])

\* ------------------------------------------------------------------------
\* growthwheat.parameters
\* ------------------------------------------------------------------------

C_MOLAR_MASS == 12
N_MOLAR_MASS == 14
CONVERSION_FACTOR_20_TO_12 == Rat(45, 100)
HEXOSE_MOLAR_MASS_C_RATIO == Rat(42, 100)
AMINO_ACIDS_MOLAR_MASS_N_RATIO == Rat(135, 1000)
ALPHA == Rat(106, 1000)
BETA == Rat(128, 100)
RATIO_SUCROSE_MSTRUCT == Rat(444, 1000)
RATIO_AMINO_ACIDS_MSTRUCT == Rat(5, 1000)
AMINO_ACIDS_C_RATIO == Rat(415, 100)
AMINO_ACIDS_N_RATIO == Rat(125, 100)
RATIO_MSTRUCT_DM == Rat(8, 10)
RATIO_ENCLOSED_LEAF_INTERNODE == 5
te == (300 * 3600 * 24) \div 12
te_IN == (210 * 3600 * 24) \div 12
VMAX_ROOTS_GROWTH_POSTFLO == RMul(Rat(15, 1000), CONVERSION_FACTOR_20_TO_12)
VMAX_ROOTS_GROWTH_PREFLO ==
    RMul(RMul(Rat(15, 1000), CONVERSION_FACTOR_20_TO_12), Rat(57, 10))
K_ROOTS_GROWTH == 1250
RATIO_C_MSTRUCT_ROOTS == Rat(444, 1000)
RATIO_N_MSTRUCT_ROOTS_ == Rat(5, 1000)

\* the literal 1E6 (micromoles per mole) and its inverse 1E-6
E6 == RI(1000000)
Em6 == Rat(1, 1000000)

\* ------------------------------------------------------------------------
\* growthwheat.model: the growth laws (pure functions)
\* ------------------------------------------------------------------------

\* the float nan, the sentinel of an undetermined final length
NaN == <<0, 0>>
isnan(x) == x[2] = 0

calculate_ratio_mstruct_DM_dry_mass(mstruct, sucrose, fructans, amino_acids, proteins) ==
    RAdd(RAdd(RAdd(RAdd(
        RDiv(RMul(RMul(sucrose, Em6), RI(C_MOLAR_MASS)), HEXOSE_MOLAR_MASS_C_RATIO),
        RDiv(RMul(RMul(fructans, Em6), RI(C_MOLAR_MASS)), HEXOSE_MOLAR_MASS_C_RATIO)),
        RDiv(RMul(RMul(amino_acids, Em6), RI(N_MOLAR_MASS)), AMINO_ACIDS_MOLAR_MASS_N_RATIO)),
        RDiv(RMul(RMul(proteins, Em6), RI(N_MOLAR_MASS)), AMINO_ACIDS_MOLAR_MASS_N_RATIO)),
        mstruct)

\* the division is taken to fail where the structural mass is 0
calculate_ratio_mstruct_DM_raises_zero_mstruct(mstruct, sucrose, fructans, amino_acids, proteins) ==
    mstruct = Zero

calculate_ratio_mstruct_DM_raises(mstruct, sucrose, fructans, amino_acids, proteins) ==
    calculate_ratio_mstruct_DM_dry_mass(mstruct, sucrose, fructans, amino_acids, proteins) = Zero

calculate_ratio_mstruct_DM(mstruct, sucrose, fructans, amino_acids, proteins) ==
    RDiv(mstruct,
         calculate_ratio_mstruct_DM_dry_mass(mstruct, sucrose, fructans, amino_acids, proteins))

calculate_delta_leaf_enclosed_mstruct(leaf_L, delta_leaf_L, ratio_mstruct_DM) ==
    RMul(RMul(RMul(RMul(ALPHA, BETA), RPow(leaf_L, RSub(BETA, One))), delta_leaf_L),
         ratio_mstruct_DM)

\* past te the enclosed mass is set to its ceiling instead of left alone
calculate_delta_leaf_enclosed_mstruct_postE_snap(delta_leaf_pseudo_age, leaf_pseudo_age, leaf_pseudostem_L, enclosed_mstruct, LSSW) ==
    LET enclosed_mstruct_max == RMul(leaf_pseudostem_L, LSSW)
    IN  IF RLt(leaf_pseudo_age, RI(te))
        THEN RMul(RDiv(RSub(enclosed_mstruct_max, enclosed_mstruct),
                       RSub(RI(te), leaf_pseudo_age)),
                  delta_leaf_pseudo_age)
        ELSE RSub(enclosed_mstruct_max, enclosed_mstruct)

calculate_delta_leaf_enclosed_mstruct_postE(delta_leaf_pseudo_age, leaf_pseudo_age, leaf_pseudostem_L, enclosed_mstruct, LSSW) ==
    LET enclosed_mstruct_max == RMul(leaf_pseudostem_L, LSSW)
    IN  IF RLt(leaf_pseudo_age, RI(te))
        THEN RMul(RDiv(RSub(enclosed_mstruct_max, enclosed_mstruct),
                       RSub(RI(te), leaf_pseudo_age)),
                  delta_leaf_pseudo_age)
        ELSE Zero

calculate_delta_internode_enclosed_mstruct(internode_L, delta_internode_L, ratio_mstruct_DM) ==
    RMul(RMul(RMul(RMul(RMul(RI(RATIO_ENCLOSED_LEAF_INTERNODE), ALPHA), BETA),
                   RPow(internode_L, RSub(BETA, One))),
              delta_internode_L),
         ratio_mstruct_DM)

\* the final length is used without the test for the sentinel: NaN comes back
calculate_delta_internode_enclosed_mstruct_postL_sentinel(delta_internode_pseudo_age, internode_pseudo_age, internode_L, internode_pseudostem_L, internode_Lmax, LSIW, enclosed_mstruct) ==
    LET enclosed_mstruct_max == RMul(RMin(internode_pseudostem_L, internode_Lmax), LSIW)
    IN  IF isnan(internode_Lmax) /\ RLt(internode_pseudo_age, RI(te_IN))
        THEN NaN
        ELSE IF RLt(internode_pseudo_age, RI(te_IN))
        THEN RMul(RDiv(RSub(enclosed_mstruct_max, enclosed_mstruct),
                       RSub(RI(te_IN), internode_pseudo_age)),
                  delta_internode_pseudo_age)
        ELSE Zero

\* past te_IN the internode goes on closing the gap to its ceiling
calculate_delta_internode_enclosed_mstruct_postL_resumes(delta_internode_pseudo_age, internode_pseudo_age, internode_L, internode_pseudostem_L, internode_Lmax, LSIW, enclosed_mstruct) ==
    LET enclosed_mstruct_max ==
            IF isnan(internode_Lmax)
            THEN RMul(internode_L, LSIW)
            ELSE RMul(RMin(internode_pseudostem_L, internode_Lmax), LSIW)
    IN  IF RLt(internode_pseudo_age, RI(te_IN))
        THEN RMul(RDiv(RSub(enclosed_mstruct_max, enclosed_mstruct),
                       RSub(RI(te_IN), internode_pseudo_age)),
                  delta_internode_pseudo_age)
        ELSE RSub(enclosed_mstruct_max, enclosed_mstruct)

calculate_delta_internode_enclosed_mstruct_postL(delta_internode_pseudo_age, internode_pseudo_age, internode_L, internode_pseudostem_L, internode_Lmax, LSIW, enclosed_mstruct) ==
    LET enclosed_mstruct_max ==
            IF isnan(internode_Lmax)
            THEN RMul(internode_L, LSIW)
            ELSE RMul(RMin(internode_pseudostem_L, internode_Lmax), LSIW)
    IN  IF RLt(internode_pseudo_age, RI(te_IN))
        THEN RMul(RDiv(RSub(enclosed_mstruct_max, enclosed_mstruct),
                       RSub(RI(te_IN), internode_pseudo_age)),
                  delta_internode_pseudo_age)
        ELSE Zero

\* the organ covers half of the gap to specific weight x metric
calculate_delta_emerged_tissue_mstruct_half(SW, previous_mstruct, metric) ==
    RDiv(RSub(RMul(SW, metric), previous_mstruct), RI(2))

calculate_delta_emerged_tissue_mstruct(SW, previous_mstruct, metric) ==
    LET updated_mstruct == RMul(SW, metric)
    IN  RSub(updated_mstruct, previous_mstruct)

calculate_delta_Nstruct(delta_mstruct) ==
    RMul(delta_mstruct, RATIO_AMINO_ACIDS_MSTRUCT)

calculate_export_raises(delta_mstruct, metabolite, hiddenzone_mstruct) ==
    hiddenzone_mstruct = Zero

calculate_export(delta_mstruct, metabolite, hiddenzone_mstruct) ==
    RMul(delta_mstruct, RMax(Zero, RDiv(metabolite, hiddenzone_mstruct)))

calculate_s_Nstruct_amino_acids(delta_hiddenzone_Nstruct, delta_lamina_Nstruct, delta_sheath_Nstruct) ==
    RMul(RDiv(RAdd(RAdd(delta_hiddenzone_Nstruct, delta_lamina_Nstruct),
                   delta_sheath_Nstruct),
              RI(N_MOLAR_MASS)),
         E6)

\* the carbon of the amino acids consumed is not netted out of the demand
calculate_s_mstruct_sucrose_gross(delta_hiddenzone_mstruct, delta_lamina_mstruct, delta_sheath_mstruct, s_Nstruct_amino_acids_N) ==
    RMul(RDiv(RMul(RAdd(RAdd(delta_hiddenzone_mstruct, delta_lamina_mstruct),
                        delta_sheath_mstruct),
                   RATIO_SUCROSE_MSTRUCT),
              RI(C_MOLAR_MASS)),
         E6)

calculate_s_mstruct_sucrose(delta_hiddenzone_mstruct, delta_lamina_mstruct, delta_sheath_mstruct, s_Nstruct_amino_acids_N) ==
    LET s_Nstruct_amino_acids == RDiv(s_Nstruct_amino_acids_N, AMINO_ACIDS_N_RATIO)
        s_mstruct_amino_acids_C == RMul(s_Nstruct_amino_acids, AMINO_ACIDS_C_RATIO)
        s_mstruct_C ==
            RMul(RDiv(RMul(RAdd(RAdd(delta_hiddenzone_mstruct, delta_lamina_mstruct),
                                delta_sheath_mstruct),
                           RATIO_SUCROSE_MSTRUCT),
                      RI(C_MOLAR_MASS)),
                 E6)
    IN  RSub(s_mstruct_C, s_mstruct_amino_acids_C)

\* Roots.  N = 1.8, the exponent of the saturation law
N_ROOTS == <<9, 5>>

\* the magnitude of the concentration instead of its positive part
roots_conc_sucrose_unsigned(sucrose, mstruct) ==
    LET conc == RDiv(sucrose, mstruct) IN RMax(conc, RNeg(conc))

roots_conc_sucrose(sucrose, mstruct) == RMax(Zero, RDiv(sucrose, mstruct))

roots_Vmax(opt_postflo) ==
    IF opt_postflo THEN VMAX_ROOTS_GROWTH_POSTFLO ELSE VMAX_ROOTS_GROWTH_PREFLO

\* conc_sucrose**N / K_ROOTS_GROWTH**N: the two powers of the saturation term,
\* taken as one power of the quotient
roots_saturation(conc_sucrose) ==
    RPow(RDiv(conc_sucrose, RI(K_ROOTS_GROWTH)), N_ROOTS)

\* the demand taken whole, whatever the pool holds
roots_Nstruct_N_growth_uncapped(amino_acids, Nstruct_growth) ==
    RMul(RDiv(Nstruct_growth, RI(N_MOLAR_MASS)), E6)

roots_Nstruct_N_growth(amino_acids, Nstruct_growth) ==
    RMin(amino_acids, RMul(RDiv(Nstruct_growth, RI(N_MOLAR_MASS)), E6))

calculate_roots_mstruct_growth_raises(sucrose, amino_acids, mstruct, delta_t, opt_postflo) ==
    mstruct = Zero

\* the rate grows with the saturation term without the denominator
calculate_roots_mstruct_growth_unsaturated(sucrose, amino_acids, mstruct, delta_t, opt_postflo) ==
    LET s == roots_saturation(roots_conc_sucrose(sucrose, mstruct))
        mstruct_C_growth == RMul(RMul(RMul(s, roots_Vmax(opt_postflo)), delta_t), mstruct)
        mstruct_growth ==
            RDiv(RMul(RMul(mstruct_C_growth, Em6), RI(C_MOLAR_MASS)), RATIO_C_MSTRUCT_ROOTS)
        Nstruct_growth == RMul(mstruct_growth, RATIO_N_MSTRUCT_ROOTS_)
    IN  <<mstruct_C_growth, mstruct_growth, Nstruct_growth,
          roots_Nstruct_N_growth(amino_acids, Nstruct_growth)>>

\* returns <<mstruct_C_growth, mstruct_growth, Nstruct_growth, Nstruct_N_growth>>
calculate_roots_mstruct_growth(sucrose, amino_acids, mstruct, delta_t, opt_postflo) ==
    LET conc_sucrose == roots_conc_sucrose(sucrose, mstruct)
        Vmax == roots_Vmax(opt_postflo)
        s == roots_saturation(conc_sucrose)
        mstruct_C_growth ==
            RMul(RMul(RDiv(RMul(s, Vmax), RAdd(s, One)), delta_t), mstruct)
        mstruct_growth ==
            RDiv(RMul(RMul(mstruct_C_growth, Em6), RI(C_MOLAR_MASS)), RATIO_C_MSTRUCT_ROOTS)
        Nstruct_growth == RMul(mstruct_growth, RATIO_N_MSTRUCT_ROOTS_)
        Nstruct_N_growth == roots_Nstruct_N_growth(amino_acids, Nstruct_growth)
    IN  <<mstruct_C_growth, mstruct_growth, Nstruct_growth, Nstruct_N_growth>>

\* ------------------------------------------------------------------------
\* The collaborators of the stepper that are not part of growthwheat.model
\* ------------------------------------------------------------------------

\* respiwheat: RespirationModel.R_growth, growth respiration of the carbon
\* consumed (yield of growth YG)
YG == Rat(8, 10)
R_growth(mstruct_growth) == RMul(mstruct_growth, RDiv(RSub(One, YG), YG))

\* growthwheat.model of the trunk: emergence of a leaf and length of its
\* lamina.  A comparison with NaN is false, and max(0, NaN) is 0.
calculate_leaf_emergence(leaf_L, hgz_L) ==
    IF isnan(leaf_L) \/ isnan(hgz_L) THEN FALSE ELSE RLt(hgz_L, leaf_L)

calculate_lamina_L_difference(leaf_L, hgz_L) ==
    IF isnan(leaf_L) \/ isnan(hgz_L) THEN NaN ELSE RSub(leaf_L, hgz_L)

calculate_lamina_L_raises(leaf_L, hgz_L) ==
    LET lamina_L == calculate_lamina_L_difference(leaf_L, hgz_L)
    IN  ~isnan(lamina_L) /\ RLe(lamina_L, Zero)

calculate_lamina_L(leaf_L, hgz_L) ==
    LET lamina_L == calculate_lamina_L_difference(leaf_L, hgz_L)
    IN  IF isnan(lamina_L) THEN Zero ELSE RMax(Zero, lamina_L)

\* The stepper's names of the laws: the pre-emergence law with the constant
\* ratio mstruct/dry matter, the emerged-tissue law, the export law for each
\* metabolite, the consumption laws of the three deltas.
calculate_delta_mstruct_preE(leaf_L, delta_leaf_L) ==
    calculate_delta_leaf_enclosed_mstruct(leaf_L, delta_leaf_L, RATIO_MSTRUCT_DM)

calculate_delta_mstruct_postE(SW, previous_mstruct, metric) ==
    calculate_delta_emerged_tissue_mstruct(SW, previous_mstruct, metric)

calculate_export_sucrose(delta_mstruct, sucrose, hiddenzone_mstruct) ==
    calculate_export(delta_mstruct, sucrose, hiddenzone_mstruct)

calculate_export_amino_acids(delta_mstruct, amino_acids, hiddenzone_mstruct) ==
    calculate_export(delta_mstruct, amino_acids, hiddenzone_mstruct)

calculate_s_mstruct_amino_acids(delta_hiddenzone_mstruct, delta_lamina_mstruct, delta_sheath_mstruct) ==
    calculate_s_Nstruct_amino_acids(calculate_delta_Nstruct(delta_hiddenzone_mstruct),
                                    calculate_delta_Nstruct(delta_lamina_mstruct),
                                    calculate_delta_Nstruct(delta_sheath_mstruct))

calculate_s_mstruct_sucrose3(delta_hiddenzone_mstruct, delta_lamina_mstruct, delta_sheath_mstruct) ==
    calculate_s_mstruct_sucrose(delta_hiddenzone_mstruct, delta_lamina_mstruct,
        delta_sheath_mstruct,
        calculate_s_mstruct_amino_acids(delta_hiddenzone_mstruct, delta_lamina_mstruct,
                                        delta_sheath_mstruct))

\* ------------------------------------------------------------------------
\* growthwheat.simulation: the state of a Simulation
\* ------------------------------------------------------------------------

\* Identifiers.  A key is <<kind, index, organ label>>: a hidden zone
\* (plant, axis, metamer), an organ (plant, axis, metamer, organ label), a root
\* (plant, axis); plant and axis are fixed.
Metamers == {1, 2}
Roots == {1, 2}

hiddenzone_key(h) == <<"hiddenzone", h, "">>
root_key(r) == <<"roots", r, "">>
organ_key(h, label) == <<"organs", h, label>>

\* a lamina key that drops the metamer: every hidden zone feeds the same blade
lamina_id_shared(h) == organ_key(1, "blade")

lamina_id(h) == organ_key(h, "blade")
sheath_id(h) == organ_key(h, "sheath")

\* how many times initialize/run is repeated on one Simulation
MaxSteps == 2

VARIABLES
    heap,        \* the record objects: address <<bank, key>> -> record
    inputs,      \* self.inputs: key -> bank of the record object it refers to
    outputs,     \* self.outputs: key -> bank ({} before the first run)
    delta_t,     \* self.delta_t
    opt_postflo, \* the rate constant of the root law the stepper's call resolves to
    is_post_flowering, \* the phenological phase of the plant; the stepper holds no such flag
    pc,          \* "ready", "hiddenzones", "roots", "done", "aborted"
    todo,        \* the entities the current loop has not visited yet
    error,       \* the exception run() ended with
    steps,       \* the number of runs started
    inputs0,     \* history: the values of the input records when run() was called
    outputs0,    \* history: the values of the output records when run() was called
    writers,     \* history: output key -> the entities whose processing wrote it
    lab          \* a growth law applied on its own (specification SpecLaws)

vars == <<heap, inputs, outputs, delta_t, opt_postflo, is_post_flowering, pc, todo, error, steps,
          inputs0, outputs0, writers, lab>>

simVars == <<heap, inputs, outputs, delta_t, opt_postflo, is_post_flowering, pc, todo, error, steps,
             inputs0, outputs0, writers>>

\* the values the keys of a mapping refer to
View(refs, h) == [k \in DOMAIN refs |-> h[<<refs[k], k>>]]
InView == View(inputs, heap)
OutView == View(outputs, heap)

NoKey == <<"", 0, "">>
NoError == [type |-> "", key |-> NoKey]
KeyError(k) == [type |-> "KeyError", key |-> k]
ZeroDivisionError == [type |-> "ZeroDivisionError", key |-> NoKey]

\* ------------------------------------------------------------------------
\* The input snapshots a run is started from
\* ------------------------------------------------------------------------

hiddenzone_record(leaf_L, delta_leaf_L, SSLW, SSSW, leaf_is_emerged, sucrose, amino_acids, mstruct) ==
    [leaf_L |-> leaf_L, delta_leaf_L |-> delta_leaf_L, SSLW |-> SSLW, SSSW |-> SSSW,
     leaf_is_emerged |-> leaf_is_emerged, sucrose |-> sucrose,
     amino_acids |-> amino_acids, mstruct |-> mstruct]

\* has_area: the record has the key 'area' the sheath branch reads (it is not
\* one of ORGAN_INPUTS)
organ_record(is_growing, mstruct, green_area, has_area, area, sucrose, amino_acids) ==
    [is_growing |-> is_growing, mstruct |-> mstruct, green_area |-> green_area,
     has_area |-> has_area, area |-> area, sucrose |-> sucrose,
     amino_acids |-> amino_acids]

root_record(sucrose, amino_acids, mstruct, Nstruct) ==
    [sucrose |-> sucrose, amino_acids |-> amino_acids, mstruct |-> mstruct,
     Nstruct |-> Nstruct]

\* delta_leaf_L = 15625/1696 m makes the pre-emergence delta of a leaf of 1 m
\* exactly 1 g (ALPHA * BETA * RATIO_MSTRUCT_DM = 1696/15625), 15625/13568 m
\* makes it 1/8 g
HiddenzoneHidden ==
    hiddenzone_record(One, Rat(15625, 13568), RI(2), RI(3), FALSE, RI(100000), RI(1000),
                      One)
HiddenzoneEmerged ==
    hiddenzone_record(One, Rat(15625, 1696), RI(2), RI(3), TRUE, RI(6), RI(-4), RI(2))
HiddenzoneDeficit ==
    hiddenzone_record(One, Zero, RI(2), RI(3), TRUE, RI(-3), RI(8), RI(2))
HiddenzoneEmpty ==
    hiddenzone_record(Zero, Zero, RI(2), RI(3), TRUE, RI(6), RI(4), Zero)

LaminaGrowing == organ_record(TRUE, One, One, FALSE, Zero, RI(5), RI(5))
LaminaShrinking == organ_record(TRUE, RI(3), One, FALSE, Zero, RI(5), RI(5))
LaminaMature == organ_record(FALSE, RI(2), One, FALSE, Zero, RI(5), RI(5))
SheathGrowing == organ_record(TRUE, One, Zero, TRUE, One, RI(1), RI(1))
SheathNoArea == organ_record(TRUE, One, One, FALSE, Zero, RI(1), RI(1))

\* the organ records of one metamer: organ label -> record
Organs(blade, sheath) == [label \in {"blade", "sheath"} |->
                             IF label = "blade" THEN blade ELSE sheath]
OnlyBlade(blade) == [label \in {"blade"} |-> blade]
OnlySheath(sheath) == [label \in {"sheath"} |-> sheath]

RootGrowing == root_record(RI(1250), RI(10), One, Rat(5, 1000))
RootStarved == root_record(RI(1250), One, One, Rat(5, 1000))
RootNoSucrose == root_record(Zero, RI(5), One, Rat(5, 1000))
RootDeficit == root_record(RI(-1250), RI(-2), One, Rat(5, 1000))
RootEmpty == root_record(RI(10), RI(10), Zero, Zero)

HiddenzoneInputs(h) ==
    IF h = 1
    THEN {HiddenzoneHidden, HiddenzoneEmerged, HiddenzoneDeficit, HiddenzoneEmpty}
    ELSE {HiddenzoneHidden, HiddenzoneEmerged}

OrganInputs(h) ==
    IF h = 1
    THEN {Organs(LaminaGrowing, SheathGrowing), Organs(LaminaShrinking, SheathGrowing),
          Organs(LaminaMature, SheathGrowing), Organs(LaminaMature, SheathNoArea),
          OnlySheath(SheathGrowing), OnlyBlade(LaminaMature)}
    ELSE {Organs(LaminaGrowing, SheathGrowing), OnlyBlade(LaminaMature)}

RootInputs(r) ==
    IF r = 1
    THEN {RootGrowing, RootStarved, RootNoSucrose, RootDeficit, RootEmpty}
    ELSE {RootGrowing, RootDeficit}

DeltaTs == {RI(40000)}

\* the keys of a snapshot with the organ records org[h] of each metamer h
SnapshotKeys(org) ==
    {hiddenzone_key(h) : h \in Metamers}
        \cup {root_key(r) : r \in Roots}
        \cup UNION {{organ_key(h, label) : label \in DOMAIN org[h]} : h \in Metamers}

Snapshot(hz, org, rt) ==
    [k \in SnapshotKeys(org) |->
        IF k[1] = "hiddenzone" THEN hz[k[2]]
        ELSE IF k[1] = "roots" THEN rt[k[2]]
        ELSE org[k[2]][k[3]]]

Banks == {0, 1}

\* Simulation(delta_t) followed by initialize(inputs): the input records are
\* the caller's objects (bank 0), self.outputs is {}
InitSim ==
    /\ \E hz \in [Metamers -> UNION {HiddenzoneInputs(h) : h \in Metamers}],
          org \in [Metamers -> UNION {OrganInputs(h) : h \in Metamers}],
          rt \in [Roots -> UNION {RootInputs(r) : r \in Roots}] :
          /\ \A h \in Metamers : hz[h] \in HiddenzoneInputs(h) /\ org[h] \in OrganInputs(h)
          /\ \A r \in Roots : rt[r] \in RootInputs(r)
          /\ heap = [a \in {0} \X SnapshotKeys(org) |-> Snapshot(hz, org, rt)[a[2]]]
          /\ inputs = [k \in SnapshotKeys(org) |-> 0]
    /\ outputs = <<>>
    /\ delta_t \in DeltaTs
    /\ opt_postflo \in BOOLEAN
    /\ is_post_flowering \in BOOLEAN
    /\ pc = "ready"
    /\ todo = {}
    /\ error = NoError
    /\ steps = 0
    /\ inputs0 = <<>>
    /\ outputs0 = <<>>
    /\ writers = <<>>

\* ------------------------------------------------------------------------
\* Simulation.run, one entity at a time
\* ------------------------------------------------------------------------

\* a shallow copy: the output mappings refer to the input record objects
deepcopy_shallow(refs) == refs

\* copy.deepcopy of the input mappings: every key refers to a new record
\* object (the bank the inputs do not use)
deepcopy(refs) == [k \in DOMAIN refs |-> 1 - refs[k]]

\* the output mappings a Simulation already holds are kept, not replaced
RunCopy_keeps_outputs ==
    /\ pc = "ready"
    /\ steps < MaxSteps
    /\ outputs' = IF outputs = <<>> THEN deepcopy(inputs) ELSE outputs
    /\ heap' = IF outputs = <<>>
               THEN [a \in {<<inputs[k], k>> : k \in DOMAIN inputs}
                               \cup {<<outputs'[k], k>> : k \in DOMAIN inputs} |->
                        heap[<<inputs[a[2]], a[2]>>]]
               ELSE heap
    /\ inputs0' = InView
    /\ outputs0' = OutView
    /\ writers' = [k \in DOMAIN inputs |-> {}]
    /\ todo' = {k \in DOMAIN inputs : k[1] = "hiddenzone"}
    /\ pc' = "hiddenzones"
    /\ steps' = steps + 1
    /\ error' = NoError
    /\ UNCHANGED <<inputs, delta_t, opt_postflo, is_post_flowering>>

\* the copy of the inputs into self.outputs
RunCopy ==
    /\ pc = "ready"
    /\ steps < MaxSteps
    /\ outputs' = deepcopy(inputs)
    /\ heap' = [a \in {<<inputs[k], k>> : k \in DOMAIN inputs}
                        \cup {<<outputs'[k], k>> : k \in DOMAIN inputs} |->
                    heap[<<inputs[a[2]], a[2]>>]]
    /\ inputs0' = InView
    /\ outputs0' = OutView
    /\ writers' = [k \in DOMAIN inputs |-> {}]
    /\ todo' = {k \in DOMAIN inputs : k[1] = "hiddenzone"}
    /\ pc' = "hiddenzones"
    /\ steps' = steps + 1
    /\ error' = NoError
    /\ UNCHANGED <<inputs, delta_t, opt_postflo, is_post_flowering>>

\* the lookups fail with the key of the hidden zone instead of the organ's
hiddenzone_error_own_key(ins, h) ==
    LET hz == ins[hiddenzone_key(h)]
    IN  IF ~hz.leaf_is_emerged THEN NoError
        ELSE IF lamina_id(h) \notin DOMAIN ins THEN KeyError(hiddenzone_key(h))
        ELSE IF ins[lamina_id(h)].is_growing
        THEN IF calculate_export_raises(Zero, hz.sucrose, hz.mstruct)
             THEN ZeroDivisionError ELSE NoError
        ELSE IF sheath_id(h) \notin DOMAIN ins THEN KeyError(hiddenzone_key(h))
        ELSE IF ~ins[sheath_id(h)].has_area THEN KeyError(<<"area", 0, "">>)
        ELSE IF calculate_export_raises(Zero, hz.sucrose, hz.mstruct)
             THEN ZeroDivisionError ELSE NoError

\* the exception the visit of hidden zone h raises, NoError if none: the
\* lookups of the organ records and the division by the hidden zone's mstruct
hiddenzone_error(ins, h) ==
    LET hz == ins[hiddenzone_key(h)]
    IN  IF ~hz.leaf_is_emerged THEN NoError
        ELSE IF lamina_id(h) \notin DOMAIN ins THEN KeyError(lamina_id(h))
        ELSE IF ins[lamina_id(h)].is_growing
        THEN IF calculate_export_raises(Zero, hz.sucrose, hz.mstruct)
             THEN ZeroDivisionError ELSE NoError
        ELSE IF sheath_id(h) \notin DOMAIN ins THEN KeyError(sheath_id(h))
        ELSE IF ~ins[sheath_id(h)].has_area THEN KeyError(<<"area", 0, "">>)
        ELSE IF calculate_export_raises(Zero, hz.sucrose, hz.mstruct)
             THEN ZeroDivisionError ELSE NoError

\* the test of is_growing ignored where the sheath has a record with an area
hiddenzone_target_sheath_first(ins, h) ==
    IF ~ins[hiddenzone_key(h)].leaf_is_emerged THEN NoKey
    ELSE IF ins[lamina_id(h)].is_growing
            /\ ~(sheath_id(h) \in DOMAIN ins /\ ins[sheath_id(h)].has_area)
    THEN lamina_id(h)
    ELSE sheath_id(h)

\* the organ hidden zone h feeds, NoKey if none
hiddenzone_target(ins, h) ==
    IF ~ins[hiddenzone_key(h)].leaf_is_emerged THEN NoKey
    ELSE IF ins[lamina_id(h)].is_growing THEN lamina_id(h)
    ELSE sheath_id(h)

\* the deltas and exports of the visit of hidden zone h
hiddenzone_deltas(ins, h) ==
    LET hz == ins[hiddenzone_key(h)]
        target == hiddenzone_target(ins, h)
        delta_mstruct == calculate_delta_mstruct_preE(hz.leaf_L, hz.delta_leaf_L)
        delta_lamina_mstruct ==
            IF target = lamina_id(h)
            THEN calculate_delta_mstruct_postE(hz.SSLW, ins[target].mstruct,
                                               ins[target].green_area)
            ELSE Zero
        delta_sheath_mstruct ==
            IF target = sheath_id(h)
            THEN calculate_delta_mstruct_postE(hz.SSSW, ins[target].mstruct,
                                               ins[target].area)
            ELSE Zero
        delta_organ == RAdd(delta_lamina_mstruct, delta_sheath_mstruct)
    IN  [target |-> target,
         delta_mstruct |-> delta_mstruct,
         delta_lamina_mstruct |-> delta_lamina_mstruct,
         delta_sheath_mstruct |-> delta_sheath_mstruct,
         export_sucrose |->
            IF target = NoKey THEN Zero
            ELSE calculate_export_sucrose(delta_organ, hz.sucrose, hz.mstruct),
         export_amino_acids |->
            IF target = NoKey THEN Zero
            ELSE calculate_export_amino_acids(delta_organ, hz.amino_acids, hz.mstruct)]

\* the update of the fed organ's output record
organ_update_emerged_area(rec, d) ==
    [rec EXCEPT !.mstruct = RAdd(@, RAdd(d.delta_lamina_mstruct, d.delta_sheath_mstruct)),
                !.sucrose = RAdd(@, d.export_sucrose),
                !.amino_acids = RAdd(@, d.export_amino_acids),
                !.green_area = RAdd(@, One)]

organ_update_pays_growth(rec, d) ==
    [rec EXCEPT !.mstruct = RAdd(@, RAdd(d.delta_lamina_mstruct, d.delta_sheath_mstruct)),
                !.sucrose = RAdd(@, RSub(d.export_sucrose, calculate_s_mstruct_sucrose3(Zero, d.delta_lamina_mstruct, d.delta_sheath_mstruct))),
                !.amino_acids = RAdd(@, d.export_amino_acids)]

organ_update(rec, d) ==
    [rec EXCEPT !.mstruct = RAdd(@, RAdd(d.delta_lamina_mstruct, d.delta_sheath_mstruct)),
                !.sucrose = RAdd(@, d.export_sucrose),
                !.amino_acids = RAdd(@, d.export_amino_acids)]

\* the hidden zone gives up the structural mass its organ gains
hiddenzone_update_gives_up(rec, d) ==
    LET sucrose_consumption_mstruct ==
            calculate_s_mstruct_sucrose3(d.delta_mstruct, d.delta_lamina_mstruct,
                                         d.delta_sheath_mstruct)
        AA_consumption_mstruct ==
            calculate_s_mstruct_amino_acids(d.delta_mstruct, d.delta_lamina_mstruct,
                                            d.delta_sheath_mstruct)
        Respi_growth == R_growth(sucrose_consumption_mstruct)
    IN  [rec EXCEPT !.mstruct = RSub(RAdd(@, d.delta_mstruct),
                                     RAdd(d.delta_lamina_mstruct, d.delta_sheath_mstruct)),
                    !.sucrose = RSub(@, RAdd(RAdd(sucrose_consumption_mstruct, Respi_growth),
                                             d.export_sucrose)),
                    !.amino_acids = RSub(@, RAdd(AA_consumption_mstruct,
                                                 d.export_amino_acids))]

\* the pools kept at 0 when more is drawn than they hold
hiddenzone_update_clamped(rec, d) ==
    LET sucrose_consumption_mstruct ==
            calculate_s_mstruct_sucrose3(d.delta_mstruct, d.delta_lamina_mstruct,
                                         d.delta_sheath_mstruct)
        AA_consumption_mstruct ==
            calculate_s_mstruct_amino_acids(d.delta_mstruct, d.delta_lamina_mstruct,
                                            d.delta_sheath_mstruct)
        Respi_growth == R_growth(sucrose_consumption_mstruct)
    IN  [rec EXCEPT !.mstruct = RAdd(@, d.delta_mstruct),
                    !.sucrose = RMax(Zero, RSub(@, RAdd(RAdd(sucrose_consumption_mstruct, Respi_growth), d.export_sucrose))),
                    !.amino_acids = RMax(Zero, RSub(@, RAdd(AA_consumption_mstruct, d.export_amino_acids)))]

\* the growth respiration left out of the sucrose balance
hiddenzone_update_no_respiration(rec, d) ==
    LET sucrose_consumption_mstruct ==
            calculate_s_mstruct_sucrose3(d.delta_mstruct, d.delta_lamina_mstruct,
                                         d.delta_sheath_mstruct)
        AA_consumption_mstruct ==
            calculate_s_mstruct_amino_acids(d.delta_mstruct, d.delta_lamina_mstruct,
                                            d.delta_sheath_mstruct)
    IN  [rec EXCEPT !.mstruct = RAdd(@, d.delta_mstruct),
                    !.sucrose = RSub(@, RAdd(sucrose_consumption_mstruct, d.export_sucrose)),
                    !.amino_acids = RSub(@, RAdd(AA_consumption_mstruct,
                                                 d.export_amino_acids))]

\* the update of the hidden zone's output record
hiddenzone_update(rec, d) ==
    LET sucrose_consumption_mstruct ==
            calculate_s_mstruct_sucrose3(d.delta_mstruct, d.delta_lamina_mstruct,
                                         d.delta_sheath_mstruct)
        AA_consumption_mstruct ==
            calculate_s_mstruct_amino_acids(d.delta_mstruct, d.delta_lamina_mstruct,
                                            d.delta_sheath_mstruct)
        Respi_growth == R_growth(sucrose_consumption_mstruct)
    IN  [rec EXCEPT !.mstruct = RAdd(@, d.delta_mstruct),
                    !.sucrose = RSub(@, RAdd(RAdd(sucrose_consumption_mstruct, Respi_growth),
                                             d.export_sucrose)),
                    !.amino_acids = RSub(@, RAdd(AA_consumption_mstruct,
                                                 d.export_amino_acids))]

\* one iteration of the loop over the hidden zones
RunHiddenzone(h) ==
    /\ pc = "hiddenzones"
    /\ hiddenzone_key(h) \in todo
    /\ LET ins == InView
           err == hiddenzone_error(ins, h)
       IN  IF err # NoError
           THEN /\ pc' = "aborted"
                /\ error' = err
                /\ todo' = todo \ {hiddenzone_key(h)}
                /\ UNCHANGED <<heap, writers>>
           ELSE LET d == hiddenzone_deltas(ins, h)
                    hk == hiddenzone_key(h)
                    ok == d.target
                    heap1 == IF ok = NoKey THEN heap
                             ELSE [heap EXCEPT ![<<outputs[ok], ok>>] = organ_update(@, d)]
                IN  /\ heap' = [heap1 EXCEPT ![<<outputs[hk], hk>>] =
                                                hiddenzone_update(@, d)]
                    /\ writers' = [k \in DOMAIN writers |->
                                      IF k = hk \/ k = ok
                                      THEN writers[k] \cup {hk} ELSE writers[k]]
                    /\ todo' = IF todo = {hk}
                               THEN {k \in DOMAIN inputs : k[1] = "roots"}
                               ELSE todo \ {hk}
                    /\ pc' = IF todo = {hk} THEN "roots" ELSE "hiddenzones"
                    /\ error' = error
    /\ UNCHANGED <<inputs, outputs, delta_t, opt_postflo, is_post_flowering, steps, inputs0, outputs0>>

\* the exception the visit of root r raises, NoError if none
root_error(ins, r, dt, postflo) ==
    LET rt == ins[root_key(r)]
    IN  IF calculate_roots_mstruct_growth_raises(rt.sucrose, rt.amino_acids,
                                                 rt.mstruct, dt, postflo)
        THEN ZeroDivisionError ELSE NoError

\* the growth of root r: <<mstruct_C_growth, mstruct_growth, Nstruct_growth,
\* Nstruct_N_growth>>
root_growth(ins, r, dt, postflo) ==
    LET rt == ins[root_key(r)]
    IN  calculate_roots_mstruct_growth(rt.sucrose, rt.amino_acids, rt.mstruct, dt, postflo)

\* the growth respiration is charged to the root's sucrose
root_update_respiring(rec, g) ==
    LET Respi_growth == R_growth(g[1])
    IN  [rec EXCEPT !.mstruct = RAdd(@, g[2]),
                    !.sucrose = RSub(@, RAdd(g[1], Respi_growth)),
                    !.Nstruct = RAdd(@, g[3]),
                    !.amino_acids = RSub(@, g[4])]

\* the update of the root's output record; the growth respiration of the
\* carbon consumed is computed and not used
root_update(rec, g) ==
    LET Respi_growth == R_growth(g[1])
    IN  [rec EXCEPT !.mstruct = RAdd(@, g[2]),
                    !.sucrose = RSub(@, g[1]),
                    !.Nstruct = RAdd(@, g[3]),
                    !.amino_acids = RSub(@, g[4])]

\* one iteration of the loop over the roots
RunRoot(r) ==
    /\ pc = "roots"
    /\ root_key(r) \in todo
    /\ LET ins == InView
           rk == root_key(r)
           err == root_error(ins, r, delta_t, opt_postflo)
       IN  IF err # NoError
           THEN /\ pc' = "aborted"
                /\ error' = err
                /\ todo' = todo \ {rk}
                /\ UNCHANGED <<heap, writers>>
           ELSE /\ heap' = [heap EXCEPT ![<<outputs[rk], rk>>] =
                               root_update(@, root_growth(ins, r, delta_t, opt_postflo))]
                /\ writers' = [writers EXCEPT ![rk] = @ \cup {rk}]
                /\ todo' = todo \ {rk}
                /\ pc' = IF todo = {rk} THEN "done" ELSE "roots"
                /\ error' = error
    /\ UNCHANGED <<inputs, outputs, delta_t, opt_postflo, is_post_flowering, steps, inputs0, outputs0>>

\* initialize keeps the snapshot the Simulation already holds
Initialize_stale ==
    /\ pc = "done"
    /\ steps < MaxSteps
    /\ inputs' = inputs
    /\ pc' = "ready"
    /\ UNCHANGED <<heap, outputs, delta_t, opt_postflo, is_post_flowering, todo, error, steps, inputs0,
                   outputs0, writers>>

\* the caller threads the state: initialize(simulation.outputs).  self.inputs
\* then refers to the record objects self.outputs refers to.
Initialize ==
    /\ pc = "done"
    /\ steps < MaxSteps
    /\ inputs' = outputs
    /\ pc' = "ready"
    /\ UNCHANGED <<heap, outputs, delta_t, opt_postflo, is_post_flowering, todo, error, steps, inputs0,
                   outputs0, writers>>

NoLab == [law |-> "none"]

Init == InitSim /\ lab = NoLab

Next ==
    \/ RunCopy /\ UNCHANGED lab
    \/ \E h \in Metamers : RunHiddenzone(h) /\ UNCHANGED lab
    \/ \E r \in Roots : RunRoot(r) /\ UNCHANGED lab
    \/ Initialize /\ UNCHANGED lab

Spec == Init /\ [][Next]_vars

\* ------------------------------------------------------------------------
\* Properties of Simulation.run
\* ------------------------------------------------------------------------

\* run() has been called and the inputs have not been initialized again
InRun == pc \in {"hiddenzones", "roots", "done", "aborted"}

\* the output snapshot of a step as a function of the input snapshot alone
ExpectedOutputs(ins) ==
    [k \in DOMAIN ins |->
        IF k[1] = "hiddenzone"
        THEN hiddenzone_update(ins[k], hiddenzone_deltas(ins, k[2]))
        ELSE IF k[1] = "roots"
        THEN root_update(ins[k], root_growth(ins, k[2], delta_t, opt_postflo))
        ELSE IF ins[hiddenzone_key(k[2])].leaf_is_emerged
                /\ k = organ_key(k[2], IF ins[organ_key(k[2], "blade")].is_growing
                                       THEN "blade" ELSE "sheath")
        THEN organ_update(ins[k], hiddenzone_deltas(ins, k[2]))
        ELSE ins[k]]

\* C1: whatever the order the hidden zones and the roots were visited in, a
\* completed step leaves the output snapshot that is a function of the input
\* snapshot alone, and every output record was written by the visit of at
\* most one entity: a hidden zone's and a root's by its own visit, an organ's
\* by the visit of the hidden zone of its metamer.
C1_OrderIndependence ==
    pc = "done" =>
        /\ OutView = ExpectedOutputs(inputs0)
        /\ \A k \in DOMAIN outputs :
              IF k[1] = "organs"
              THEN writers[k] \subseteq {hiddenzone_key(k[2])}
              ELSE writers[k] = {k}

\* C1 witness: a completed step in which both hidden zones fed an organ
C1_Witness ==
    /\ pc = "done"
    /\ \A h \in Metamers : \E k \in DOMAIN outputs :
          k[1] = "organs" /\ k[2] = h /\ writers[k] # {} /\ OutView[k] # inputs0[k]

\* C2: from the call of run() on, the input records hold the values they had
\* when run() was called, and no output key refers to the record object an
\* input key refers to.
C2_InputsUnchanged ==
    InRun =>
        /\ InView = inputs0
        /\ \A k \in DOMAIN outputs : k \in DOMAIN inputs => outputs[k] # inputs[k]

\* C2 witness: a completed step whose outputs differ from its inputs
C2_Witness ==
    /\ pc = "done"
    /\ \E k \in DOMAIN outputs : OutView[k] # InView[k]

\* C3 (the claim as stated): after a step that aborted, the outputs are what
\* they were before the call.
C3_AbortLeavesOutputs ==
    pc = "aborted" => OutView = outputs0

\* the organ an emerged hidden zone needs and the inputs have no record of
MissingOrgan(ins, h) ==
    IF organ_key(h, "blade") \notin DOMAIN ins THEN organ_key(h, "blade")
    ELSE IF ~ins[organ_key(h, "blade")].is_growing
            /\ organ_key(h, "sheath") \notin DOMAIN ins THEN organ_key(h, "sheath")
    ELSE NoKey

\* C4: the visit of an emerged hidden zone whose lamina (or whose sheath, the
\* lamina not growing) has no record ends the run with a KeyError carrying the
\* key of that organ, and writes nothing.
C4_MissingOrganAborts ==
    InRun =>
        \A h \in Metamers :
            (/\ hiddenzone_key(h) \notin todo
             /\ inputs0[hiddenzone_key(h)].leaf_is_emerged
             /\ MissingOrgan(inputs0, h) # NoKey)
            => /\ pc = "aborted"
               /\ error = KeyError(MissingOrgan(inputs0, h))
               /\ \A k \in DOMAIN writers : hiddenzone_key(h) \notin writers[k]

\* C4 witness: the sheath of a mature lamina is missing, after the other
\* hidden zone was visited
C4_Witness ==
    /\ pc = "aborted"
    /\ \E h \in Metamers :
          /\ error = KeyError(organ_key(h, "sheath"))
          /\ \E g \in Metamers \ {h} : writers[hiddenzone_key(g)] # {}

\* the organ keys of metamer h that have a record
OrganKeys(h) == {k \in DOMAIN inputs0 : k[1] = "organs" /\ k[2] = h}

\* the organs the flags of the input snapshot make hidden zone h feed
Fed(h) ==
    IF ~inputs0[hiddenzone_key(h)].leaf_is_emerged THEN {}
    ELSE IF inputs0[organ_key(h, "blade")].is_growing THEN {organ_key(h, "blade")}
    ELSE {organ_key(h, "sheath")}

\* the hidden zones whose visit completed
Visited(h) == writers[hiddenzone_key(h)] # {}

\* C5: the visit of a hidden zone writes the organ records its flags select
\* and no other: none if the leaf is not emerged, the lamina of its metamer
\* alone if it is emerged and the lamina is growing, the sheath of its metamer
\* alone if it is emerged and the lamina is not growing; every other organ
\* record of the metamer keeps its input values, and no organ record is
\* written by the hidden zone of another metamer.
C5_ExclusiveBranches ==
    InRun =>
        \A h \in Metamers : \A k \in OrganKeys(h) :
            /\ writers[k] \subseteq {hiddenzone_key(h)}
            /\ IF Visited(h) /\ k \in Fed(h)
               THEN writers[k] = {hiddenzone_key(h)}
               ELSE /\ writers[k] = {}
                    /\ OutView[k] = inputs0[k]

\* C5 witness: in one completed step a hidden zone fed its sheath, the lamina
\* not growing, and the other fed its growing lamina, both metamers having
\* both organs
C5_Witness ==
    /\ pc = "done"
    /\ \A h \in Metamers : Cardinality(OrganKeys(h)) = 2
    /\ \E h \in Metamers, g \in Metamers :
          /\ writers[organ_key(h, "sheath")] # {}
          /\ writers[organ_key(g, "blade")] # {}

\* structural mass of hidden zone h and of the organs of its metamer
RECURSIVE SumMstruct(_, _)
SumMstruct(view, ks) ==
    IF ks = {} THEN Zero
    ELSE LET k == CHOOSE x \in ks : TRUE
         IN  RAdd(view[k].mstruct, SumMstruct(view, ks \ {k}))

MetamerMstruct(view, h) == SumMstruct(view, OrganKeys(h) \cup {hiddenzone_key(h)})

\* the deltas and exports of hidden zone h for the input snapshot
Deltas(h) == hiddenzone_deltas(inputs0, h)

OrganDelta(h) == RAdd(Deltas(h).delta_lamina_mstruct, Deltas(h).delta_sheath_mstruct)

\* C6 (the claim as stated): in a completed step the structural mass of a
\* hidden zone and its organs together changes by the hidden zone's own
\* growth delta only, the organ gaining what the hidden zone gives up.
C6_MassConserved ==
    pc = "done" =>
        \A h \in Metamers :
            MetamerMstruct(OutView, h)
                = RAdd(MetamerMstruct(inputs0, h), Deltas(h).delta_mstruct)

\* C6 (amended): in a completed step a hidden zone's structural mass changes
\* by its own pre-emergence delta and by nothing else, the fed organ's by its
\* emerged-tissue delta, so that the mass of the two together changes by the
\* sum of both deltas; what the hidden zone passes to the organ is sucrose
\* and amino acids, the organ's delta times max(0, pool / hidden zone mstruct).
C6_MassBalance ==
    pc = "done" =>
        \A h \in Metamers :
            LET hk == hiddenzone_key(h)
                hz == inputs0[hk]
                d == Deltas(h)
            IN  /\ OutView[hk].mstruct = RAdd(hz.mstruct, d.delta_mstruct)
                /\ \A k \in Fed(h) :
                      /\ OutView[k].mstruct = RAdd(inputs0[k].mstruct, OrganDelta(h))
                      /\ RSub(OutView[k].sucrose, inputs0[k].sucrose)
                            = RMul(OrganDelta(h), RMax(Zero, RDiv(hz.sucrose, hz.mstruct)))
                      /\ RSub(OutView[k].amino_acids, inputs0[k].amino_acids)
                            = RMul(OrganDelta(h),
                                   RMax(Zero, RDiv(hz.amino_acids, hz.mstruct)))
                /\ MetamerMstruct(OutView, h)
                      = RAdd(MetamerMstruct(inputs0, h),
                             RAdd(d.delta_mstruct, OrganDelta(h)))

\* C6 witness: a completed step in which a hidden zone that grew fed an organ
\* that gained mass
C6_Witness ==
    /\ pc = "done"
    /\ \E h \in Metamers :
          /\ Fed(h) # {}
          /\ RIsPos(OrganDelta(h))
          /\ RIsPos(Deltas(h).delta_mstruct)

\* C8 (the claim as stated): no visit of a hidden zone lowers a pool of the
\* organ it feeds or, by the export, raises its own: the sucrose and the amino
\* acids the organ record receives are never negative.
C8_ExportNeverNegative ==
    InRun =>
        \A h \in Metamers : \A k \in OrganKeys(h) :
            /\ RLe(inputs0[k].sucrose, OutView[k].sucrose)
            /\ RLe(inputs0[k].amino_acids, OutView[k].amino_acids)

\* C10: the visit of a root with mstruct > 0 and sucrose <= 0 leaves the
\* mstruct, Nstruct and sucrose of its record as they were, and the growth law
\* returns 0 carbon consumed, 0 mstruct growth and 0 Nstruct growth for it.
C10_NoSucroseNoGrowth ==
    InRun =>
        \A r \in Roots :
            LET rk == root_key(r)
                root == inputs0[rk]
            IN  (writers[rk] # {} /\ RIsPos(root.mstruct) /\ RLe(root.sucrose, Zero))
                => /\ OutView[rk].mstruct = root.mstruct
                   /\ OutView[rk].Nstruct = root.Nstruct
                   /\ OutView[rk].sucrose = root.sucrose
                   /\ LET growth == calculate_roots_mstruct_growth(
                                        root.sucrose, root.amino_acids, root.mstruct,
                                        delta_t, opt_postflo)
                      IN  growth[1] = Zero /\ growth[2] = Zero /\ growth[3] = Zero

\* C10 witness: a root with an exhausted sucrose pool and a root with an empty
\* one were visited
C10_Witness ==
    /\ InRun
    /\ \E r \in Roots : writers[root_key(r)] # {} /\ RIsNeg(inputs0[root_key(r)].sucrose)
    /\ \E r \in Roots : writers[root_key(r)] # {} /\ inputs0[root_key(r)].sucrose = Zero

\* the growth the root law returns for root r of the input snapshot
RootGrowth(r) ==
    LET root == inputs0[root_key(r)]
    IN  calculate_roots_mstruct_growth(root.sucrose, root.amino_acids, root.mstruct, delta_t, opt_postflo)

\* the nitrogen the structural nitrogen of the growth holds (umol N)
RootDemand(r) == RMul(RDiv(RootGrowth(r)[3], RI(N_MOLAR_MASS)), E6)

\* the amino-acid nitrogen the visit of root r took from its pool
RootTaken(r) == RSub(inputs0[root_key(r)].amino_acids, OutView[root_key(r)].amino_acids)

RootVisited(r) == InRun /\ writers[root_key(r)] # {}

\* C11: the visit of a root takes min(amino_acids, demand) from the root's
\* amino-acid pool, which is never more than the pool holds, and a pool that
\* was >= 0 when the step began is >= 0 after the visit, in every step of a
\* sequence of threaded steps.
C11_RootNitrogenGuard ==
    \A r \in Roots :
        RootVisited(r) =>
            LET pool == inputs0[root_key(r)].amino_acids
            IN  /\ RootTaken(r) = RMin(pool, RootDemand(r))
                /\ RLe(RootTaken(r), pool)
                /\ RLe(Zero, pool) => RLe(Zero, OutView[root_key(r)].amino_acids)

\* C11 witness: a root was visited whose demand exceeded its non-negative
\* pool, so that the visit emptied the pool
C11_Witness ==
    \E r \in Roots :
        /\ RootVisited(r)
        /\ RLe(Zero, inputs0[root_key(r)].amino_acids)
        /\ RLt(inputs0[root_key(r)].amino_acids, RootDemand(r))
        /\ OutView[root_key(r)].amino_acids = Zero

\* C12 (the claim as stated): the structural nitrogen the visit adds to a
\* root's Nstruct, in umol N, is the amino-acid nitrogen it takes from the
\* root's pool, also when the pool caps what is taken.
C12_RootNitrogenConserved ==
    \A r \in Roots :
        RootVisited(r) =>
            RMul(RDiv(RSub(OutView[root_key(r)].Nstruct, inputs0[root_key(r)].Nstruct),
                      RI(N_MOLAR_MASS)), E6)
                = RootTaken(r)

\* C13 (the claim as stated): the growth the stepper applies to a root is
\* the root law evaluated with the run's delta_t and the phenological flag,
\* V_max being the post-flowering constant exactly when the plant is past
\* flowering.
C13_RootsUsePhase ==
    \A r \in Roots :
        RootVisited(r) =>
            LET root == inputs0[root_key(r)]
            IN  OutView[root_key(r)]
                    = root_update(root, calculate_roots_mstruct_growth(root.sucrose, root.amino_acids, root.mstruct, delta_t, is_post_flowering))

\* hidden zone h of the input snapshot is hidden and growing: not emerged,
\* with a positive length, length increment and mstruct
HiddenGrowing(h) ==
    LET hz == inputs0[hiddenzone_key(h)]
    IN  /\ ~hz.leaf_is_emerged
        /\ RIsPos(hz.leaf_L) /\ RIsPos(hz.delta_leaf_L) /\ RIsPos(hz.mstruct)

\* C14: the visit of a hidden zone that is not emerged, with positive length,
\* length increment and mstruct, adds to its mstruct the strictly positive
\* delta of the pre-emergence power law, changes no organ record of its
\* metamer (nothing is exported), and leaves sucrose less the sucrose
\* consumption and its growth respiration, and amino_acids less the
\* amino-acid consumption, of that delta alone.
C14_HiddenScenario ==
    \A h \in Metamers :
        (InRun /\ Visited(h) /\ HiddenGrowing(h)) =>
            LET hk == hiddenzone_key(h)
                hz == inputs0[hk]
                delta == RMul(RMul(RMul(RMul(ALPHA, BETA), RPow(hz.leaf_L, RSub(BETA, One))), hz.delta_leaf_L), RATIO_MSTRUCT_DM)
                s_N == calculate_s_Nstruct_amino_acids(calculate_delta_Nstruct(delta), Zero, Zero)
                s_C == calculate_s_mstruct_sucrose(delta, Zero, Zero, s_N)
            IN  /\ RIsPos(delta)
                /\ OutView[hk].mstruct = RAdd(hz.mstruct, delta)
                /\ \A k \in OrganKeys(h) : OutView[k] = inputs0[k]
                /\ OutView[hk].sucrose = RSub(hz.sucrose, RAdd(s_C, R_growth(s_C)))
                /\ OutView[hk].amino_acids = RSub(hz.amino_acids, s_N)

\* C14 witness: a hidden, growing zone with both organ records was visited
\* and consumed sucrose and amino acids
C14_Witness ==
    \E h \in Metamers :
        /\ InRun /\ Visited(h) /\ HiddenGrowing(h)
        /\ Cardinality(OrganKeys(h)) = 2
        /\ RLt(OutView[hiddenzone_key(h)].sucrose, inputs0[hiddenzone_key(h)].sucrose)
        /\ RLt(OutView[hiddenzone_key(h)].amino_acids, inputs0[hiddenzone_key(h)].amino_acids)

\* what the visit of hidden zone h draws from its sucrose and from its
\* amino acids: consumption, growth respiration and export
SucroseDrawn(h) ==
    LET d == Deltas(h)
        s_C == calculate_s_mstruct_sucrose3(d.delta_mstruct, d.delta_lamina_mstruct, d.delta_sheath_mstruct)
    IN  RAdd(RAdd(s_C, R_growth(s_C)), d.export_sucrose)

AminoAcidsDrawn(h) ==
    LET d == Deltas(h)
    IN  RAdd(calculate_s_mstruct_amino_acids(d.delta_mstruct, d.delta_lamina_mstruct, d.delta_sheath_mstruct), d.export_amino_acids)

\* C15: the visit of a hidden zone leaves each pool at the plain difference
\* of what it held and what was drawn, below zero when more was drawn than it
\* held, and the visit of a root leaves its sucrose at the plain difference
\* too; the step goes on, and initialize(outputs) hands the next step exactly
\* the output values, negative pools included.
C15_ExhaustionNotClamped ==
    /\ \A h \in Metamers :
          (InRun /\ Visited(h)) =>
              /\ OutView[hiddenzone_key(h)].sucrose
                    = RSub(inputs0[hiddenzone_key(h)].sucrose, SucroseDrawn(h))
              /\ OutView[hiddenzone_key(h)].amino_acids
                    = RSub(inputs0[hiddenzone_key(h)].amino_acids, AminoAcidsDrawn(h))
    /\ \A r \in Roots :
          RootVisited(r) =>
              OutView[root_key(r)].sucrose
                  = RSub(inputs0[root_key(r)].sucrose, RootGrowth(r)[1])
    /\ (pc = "ready" /\ steps > 0) => InView = OutView

\* C15 witness: a second step completed on a hidden zone whose sucrose, not
\* negative at the start of the run, the first step had driven below zero
C15_Witness ==
    /\ steps = 2
    /\ pc = "done"
    /\ RIsNeg(inputs0[hiddenzone_key(2)].sucrose)
    /\ RIsNeg(OutView[hiddenzone_key(2)].sucrose)

\* the mass delta of hidden zone h and of the organ it feeds, summed
SummedDelta(h) == RAdd(Deltas(h).delta_mstruct, OrganDelta(h))

\* the nitrogen (umol N) the structural nitrogen of the summed delta holds
NitrogenConsumed(h) ==
    RMul(RDiv(RMul(SummedDelta(h), RATIO_AMINO_ACIDS_MSTRUCT), RI(N_MOLAR_MASS)), E6)

\* the carbon (umol C) of the amino acids that hold that nitrogen
AminoAcidCarbon(h) ==
    RMul(RDiv(NitrogenConsumed(h), AMINO_ACIDS_N_RATIO), AMINO_ACIDS_C_RATIO)

\* the carbon (umol C) the summed delta holds
CarbonDemand(h) ==
    RMul(RDiv(RMul(SummedDelta(h), RATIO_SUCROSE_MSTRUCT), RI(C_MOLAR_MASS)), E6)

OutputFields(k) ==
    IF k[1] = "roots" THEN {"sucrose", "amino_acids", "mstruct", "Nstruct"}
    ELSE {"sucrose", "amino_acids", "mstruct"}

\* record b has the fields of record a, with the values of a outside the
\* output fields
SameFrame(k, a, b) ==
    /\ DOMAIN b = DOMAIN a
    /\ \A f \in DOMAIN a \ OutputFields(k) : b[f] = a[f]

FrameHolds ==
    outputs # <<>> =>
        /\ DOMAIN outputs = DOMAIN inputs
        /\ DOMAIN outputs = DOMAIN inputs0
        /\ \A k \in DOMAIN outputs : SameFrame(k, inputs0[k], OutView[k])

\* C18: no transition of a run or of the threading between runs changes the
\* set of hiddenzone, organ and root identifiers of the inputs or of the
\* outputs, the outputs have the identifiers of the inputs, and every output
\* record differs from the input record of its step, and the input record of
\* a step from that of the step before, in sucrose, amino_acids and mstruct
\* (and Nstruct for a root) only: flags, lengths, areas and specific weights
\* are those of the initial inputs.
C18_Frame ==
    [][/\ DOMAIN inputs' = DOMAIN inputs
       /\ outputs # <<>> => DOMAIN outputs' = DOMAIN outputs
       /\ inputs0 # <<>> =>
             /\ DOMAIN inputs0' = DOMAIN inputs0
             /\ \A k \in DOMAIN inputs0 : SameFrame(k, inputs0[k], inputs0'[k])
       /\ FrameHolds']_vars

\* C18 witness: a second step has completed, in which a hidden zone that
\* feeds an organ changed in all three of its output fields
C18_Witness ==
    /\ steps = 2 /\ pc = "done"
    /\ \E h \in Metamers :
          LET hk == hiddenzone_key(h)
          IN  /\ Fed(h) # {}
              /\ OutView[hk].mstruct # inputs0[hk].mstruct
              /\ OutView[hk].sucrose # inputs0[hk].sucrose
              /\ OutView[hk].amino_acids # inputs0[hk].amino_acids

\* the delta of the pre-emergence power law for the length and the length
\* increment of hidden zone h
PowerLawDelta(h) ==
    LET hz == inputs0[hiddenzone_key(h)]
    IN  RMul(RMul(RMul(RMul(ALPHA, BETA), RPow(hz.leaf_L, RSub(BETA, One))), hz.delta_leaf_L), RATIO_MSTRUCT_DM)

\* C22 (the claim as stated): the pre-emergence power law gives a hidden
\* zone's own delta only while its leaf is not emerged; the mstruct of a
\* visited hidden zone whose leaf is emerged does not grow by the power-law
\* delta of its length (where that delta is not 0).
C22_LawByPhase ==
    \A h \in Metamers :
        (InRun /\ Visited(h) /\ inputs0[hiddenzone_key(h)].leaf_is_emerged /\ PowerLawDelta(h) # Zero) =>
            OutView[hiddenzone_key(h)].mstruct # RAdd(inputs0[hiddenzone_key(h)].mstruct, PowerLawDelta(h))

\* C24: in every run after the first, started by initialize(outputs), the
\* values the run was started from are the values the outputs held when the
\* run before ended, the input records keep those values throughout the run,
\* and no input key refers to the record object its output key refers to.
C24_Threading ==
    (InRun /\ steps > 1) =>
        /\ inputs0 = outputs0
        /\ InView = inputs0
        /\ \A k \in DOMAIN inputs : inputs[k] # outputs[k]

\* C24 witness: the second run has completed, both loops wrote, and the
\* outputs differ from the inputs it read
C24_Witness ==
    /\ steps = 2 /\ pc = "done"
    /\ \A h \in Metamers : Visited(h)
    /\ \A r \in Roots : RootVisited(r)
    /\ OutView # InView

\* specific weight x metric of the organ a hidden zone feeds: SSLW x
\* green_area for the lamina, SSSW x area for the sheath
TrackedMass(h, ok) ==
    IF ok = lamina_id(h)
    THEN RMul(inputs0[hiddenzone_key(h)].SSLW, inputs0[ok].green_area)
    ELSE RMul(inputs0[hiddenzone_key(h)].SSSW, inputs0[ok].area)

HiddenzoneGave(h, ok) ==
    LET hk == hiddenzone_key(h)
        d_hz == RSub(OutView[hk].mstruct, inputs0[hk].mstruct)
        d_lamina == IF ok = lamina_id(h) THEN RSub(OutView[ok].mstruct, inputs0[ok].mstruct) ELSE Zero
        d_sheath == IF ok = sheath_id(h) THEN RSub(OutView[ok].mstruct, inputs0[ok].mstruct) ELSE Zero
        s_C == calculate_s_mstruct_sucrose3(d_hz, d_lamina, d_sheath)
        s_N == calculate_s_mstruct_amino_acids(d_hz, d_lamina, d_sheath)
    IN  [sucrose |-> RSub(RSub(inputs0[hk].sucrose, OutView[hk].sucrose), RAdd(s_C, R_growth(s_C))),
         amino_acids |-> RSub(RSub(inputs0[hk].amino_acids, OutView[hk].amino_acids), s_N)]

\* C27: for every hidden zone that fed an organ, what the organ's sucrose and
\* amino acids gained is what the hidden zone's pools lost beyond the
\* consumption and respiration of the growth of both, and it is the export
\* the export law gives: the organ pays nothing for its own growth.
C27_ExportConserved ==
    \A h \in Metamers :
        (InRun /\ Visited(h)) =>
            \A ok \in Fed(h) :
                \E gave \in {HiddenzoneGave(h, ok)}, d \in {Deltas(h)} :
                    /\ RSub(OutView[ok].sucrose, inputs0[ok].sucrose) = gave.sucrose
                    /\ RSub(OutView[ok].amino_acids, inputs0[ok].amino_acids) = gave.amino_acids
                    /\ gave.sucrose = d.export_sucrose
                    /\ gave.amino_acids = d.export_amino_acids

\* C27 witness: in a completed run one hidden zone exported sucrose to its
\* organ and another exported amino acids to a growing organ
C27_Witness ==
    /\ pc = "done"
    /\ \E h \in Metamers : Fed(h) # {} /\ RIsPos(Deltas(h).export_sucrose) /\ RIsPos(OrganDelta(h))
    /\ \E h \in Metamers : Fed(h) # {} /\ RIsPos(Deltas(h).export_amino_acids) /\ RIsPos(OrganDelta(h))

\* C28: the visit of a root leaves its sucrose less the carbon consumed and
\* nothing more (the growth respiration of that carbon is not charged);
\* mstruct, Nstruct and amino_acids change by the growth the law returns, and
\* the visit writes no record but the root's own.  A hidden zone's sucrose is
\* charged consumption, respiration and export.
C28_RootRespirationUnused ==
    /\ \A r \in Roots :
          RootVisited(r) =>
              \E g \in {RootGrowth(r)} :
                  LET rk == root_key(r)
                  IN  /\ OutView[rk].sucrose = RSub(inputs0[rk].sucrose, g[1])
                      /\ OutView[rk].mstruct = RAdd(inputs0[rk].mstruct, g[2])
                      /\ OutView[rk].Nstruct = RAdd(inputs0[rk].Nstruct, g[3])
                      /\ OutView[rk].amino_acids = RSub(inputs0[rk].amino_acids, g[4])
                      /\ \A k \in DOMAIN writers : rk \in writers[k] => k = rk
    /\ \A h \in Metamers :
          (InRun /\ Visited(h)) =>
              OutView[hiddenzone_key(h)].sucrose = RSub(inputs0[hiddenzone_key(h)].sucrose, SucroseDrawn(h))

\* C28 witness: a root that consumed carbon, so that its growth respiration
\* is not 0, was visited after a hidden zone that paid respiration
C28_Witness ==
    /\ \E r \in Roots : RootVisited(r) /\ RIsPos(R_growth(RootGrowth(r)[1]))
    /\ \E h \in Metamers : Visited(h) /\ RIsPos(Deltas(h).delta_mstruct)

\* ------------------------------------------------------------------------
\* The post-emergence laws on their own: the arguments of one call are drawn
\* at the start, the call records its result
\* ------------------------------------------------------------------------

LabAges(threshold) == {RI(threshold + d) : d \in {-4, -2, -1, 0, 1}}
LabDeltaAges == {One, RI(3)}
LabMasses == {Zero, One, RI(10)}
LabLengths == {Zero, One, RI(2)}
LabWeights == {One, RI(2)}
LabLmax == {NaN, One, RI(3)}

LeafCalls ==
    {[law |-> "none", organ |-> "leaf", delta_pseudo_age |-> da, pseudo_age |-> a,
      L |-> Zero, pseudostem_L |-> pl, Lmax |-> NaN, SW |-> sw, enclosed_mstruct |-> m,
      result |-> Zero] :
        da \in LabDeltaAges, a \in LabAges(te), pl \in LabLengths, sw \in LabWeights,
        m \in LabMasses}

InternodeCalls ==
    {[law |-> "none", organ |-> "internode", delta_pseudo_age |-> c[1], pseudo_age |-> c[2],
      L |-> c[3], pseudostem_L |-> c[4], Lmax |-> c[5], SW |-> c[6],
      enclosed_mstruct |-> c[7], result |-> Zero] :
        c \in LabDeltaAges \X LabAges(te_IN) \X LabLengths \X LabLengths \X LabLmax
                 \X LabWeights \X LabMasses}

InitLaws ==
    /\ lab \in LeafCalls \cup InternodeCalls
    /\ heap = <<>> /\ inputs = <<>> /\ outputs = <<>>
    /\ delta_t = Zero /\ opt_postflo = FALSE /\ is_post_flowering = FALSE
    /\ pc = "laws" /\ todo = {} /\ error = NoError /\ steps = 0
    /\ inputs0 = <<>> /\ outputs0 = <<>> /\ writers = <<>>

ApplyLeafPostE ==
    /\ lab.law = "none" /\ lab.organ = "leaf"
    /\ lab' = [lab EXCEPT !.law = "postE",
                          !.result = calculate_delta_leaf_enclosed_mstruct_postE(
                                         lab.delta_pseudo_age, lab.pseudo_age,
                                         lab.pseudostem_L, lab.enclosed_mstruct, lab.SW)]
    /\ UNCHANGED simVars

ApplyInternodePostL ==
    /\ lab.law = "none" /\ lab.organ = "internode"
    /\ lab' = [lab EXCEPT !.law = "postL",
                          !.result = calculate_delta_internode_enclosed_mstruct_postL(
                                         lab.delta_pseudo_age, lab.pseudo_age, lab.L,
                                         lab.pseudostem_L, lab.Lmax, lab.SW,
                                         lab.enclosed_mstruct)]
    /\ UNCHANGED simVars

NextLaws ==
    \/ ApplyLeafPostE
    \/ ApplyInternodePostL

SpecLaws == InitLaws /\ [][NextLaws]_vars

\* C7 (the claim as stated, for the laws): the delta a post-emergence law
\* returns for non-negative arguments never takes the enclosed mass it is
\* added to below zero.
C7_NonNegative ==
    lab.law \in {"postE", "postL"} =>
        RLe(Zero, RAdd(lab.enclosed_mstruct, lab.result))

\* C9: the post-emergence leaf law returns 0 for every call with a pseudo-age
\* of te or more, and the post-ligulation internode law returns 0 for every
\* call with a pseudo-age of te_IN or more, whatever the other arguments.
C9_TerminalZero ==
    /\ (lab.law = "postE" /\ ~RLt(lab.pseudo_age, RI(te))) => lab.result = Zero
    /\ (lab.law = "postL" /\ ~RLt(lab.pseudo_age, RI(te_IN))) => lab.result = Zero

\* C9 witness: the leaf law was called at a pseudo-age of exactly te with an
\* enclosed mass that is not at its ceiling
C9_Witness ==
    /\ lab.law = "postE"
    /\ lab.pseudo_age = RI(te)
    /\ RMul(lab.pseudostem_L, lab.SW) # lab.enclosed_mstruct

\* the growth ceiling of a call of the post-ligulation internode law
InternodeCeiling ==
    IF isnan(lab.Lmax) THEN RMul(lab.L, lab.SW)
    ELSE RMul(RMin(lab.pseudostem_L, lab.Lmax), lab.SW)

\* C19: the delta the post-ligulation internode law returns is a number, not
\* the sentinel, whether the final length is NaN or not, and before te_IN it
\* closes the gap to the ceiling in proportion to the pseudo-age elapsed:
\* delta * (te_IN - age) = (ceiling - enclosed mass) * delta age, the ceiling
\* being L * LSIW when the final length is NaN and min(pseudostem_L, Lmax) *
\* LSIW otherwise.
C19_InternodeCeiling ==
    lab.law = "postL" =>
        /\ ~isnan(lab.result)
        /\ RLt(lab.pseudo_age, RI(te_IN)) =>
              RMul(lab.result, RSub(RI(te_IN), lab.pseudo_age))
                  = RMul(RSub(InternodeCeiling, lab.enclosed_mstruct), lab.delta_pseudo_age)

\* C19 witness: the law was called before te_IN with a final length of NaN,
\* a length that differs from the pseudostem length, and returned a delta
\* other than 0
C19_Witness ==
    /\ lab.law = "postL"
    /\ isnan(lab.Lmax)
    /\ RLt(lab.pseudo_age, RI(te_IN))
    /\ lab.L # lab.pseudostem_L
    /\ lab.result # Zero

\* ------------------------------------------------------------------------
\* Runs repeated on one Simulation: the caller threads the outputs or hands
\* initialize the snapshot of the run before again
\* ------------------------------------------------------------------------

InitRerun ==
    /\ InitSim
    /\ ~opt_postflo /\ ~is_post_flowering
    /\ lab = NoLab

\* initialize(inputs) with the snapshot the last run was started from, while
\* self.outputs holds what that run left; lab keeps the values of that run
Reinitialize ==
    /\ pc \in {"done", "aborted"}
    /\ steps < MaxSteps
    /\ inputs' = inputs
    /\ pc' = "ready"
    /\ lab' = [law |-> "rerun", ended |-> pc, inputs |-> inputs0, outputs |-> OutView]
    /\ UNCHANGED <<heap, outputs, delta_t, opt_postflo, is_post_flowering, todo, error, steps, inputs0,
                   outputs0, writers>>

NextRerun ==
    \/ RunCopy /\ UNCHANGED lab
    \/ \E h \in Metamers : RunHiddenzone(h) /\ UNCHANGED lab
    \/ \E r \in Roots : RunRoot(r) /\ UNCHANGED lab
    \/ Initialize /\ lab' = NoLab
    \/ Reinitialize

SpecRerun == InitRerun /\ [][NextRerun]_vars

\* C21: a run started from the input values of the run before on the same
\* Simulation (same delta_t), with the outputs of that run still in place,
\* ends with the output values that run ended with.
C21_Deterministic ==
    (pc = "done" /\ lab.law = "rerun" /\ inputs0 = lab.inputs) =>
        /\ lab.ended = "done"
        /\ OutView = lab.outputs

\* C21 witness: a second run from the same snapshot has completed over
\* outputs that differed from that snapshot in a hidden zone and in a root
C21_Witness ==
    /\ pc = "done" /\ lab.law = "rerun" /\ inputs0 = lab.inputs
    /\ \E h \in Metamers : outputs0[hiddenzone_key(h)] # inputs0[hiddenzone_key(h)]
    /\ \E r \in Roots : outputs0[root_key(r)] # inputs0[root_key(r)]

\* ------------------------------------------------------------------------
\* Division faults: runs of the stepper beside one call of the ratio law
\* ------------------------------------------------------------------------

\* the calls of calculate_ratio_mstruct_DM: no dry mass at all, a structural
\* mass of 1 g cancelled by a sucrose deficit, and 1 g of sucrose alone
RatioCalls ==
    {[law |-> "none", mstruct |-> c[1], sucrose |-> c[2], fructans |-> Zero,
      amino_acids |-> Zero, proteins |-> Zero, result |-> Zero, raised |-> FALSE] :
        c \in {<<Zero, Zero>>, <<One, RI(-35000)>>, <<Zero, RI(35000)>>}}

InitFaults ==
    /\ InitSim
    /\ ~opt_postflo /\ ~is_post_flowering
    /\ lab \in RatioCalls

ApplyRatio ==
    /\ lab.law = "none"
    /\ IF calculate_ratio_mstruct_DM_raises(lab.mstruct, lab.sucrose, lab.fructans, lab.amino_acids, lab.proteins)
       THEN lab' = [lab EXCEPT !.law = "ratio", !.raised = TRUE]
       ELSE lab' = [lab EXCEPT !.law = "ratio",
                               !.result = calculate_ratio_mstruct_DM(lab.mstruct, lab.sucrose, lab.fructans,
                                                                     lab.amino_acids, lab.proteins)]
    /\ UNCHANGED simVars

NextFaults ==
    \/ RunCopy /\ UNCHANGED lab
    \/ \E h \in Metamers : RunHiddenzone(h) /\ UNCHANGED lab
    \/ \E r \in Roots : RunRoot(r) /\ UNCHANGED lab
    \/ Initialize /\ UNCHANGED lab
    \/ ApplyRatio

SpecFaults == InitFaults /\ [][NextFaults]_vars

\* the roots of the step's inputs with a structural mass of 0
EmptyRoots == {root_key(r) : r \in {q \in Roots : inputs0[root_key(q)].mstruct = Zero}}

\* hidden zone h has an organ record to feed: the growing lamina, or the
\* sheath with its area under a lamina that is not growing
FeedsOrgan(h) ==
    /\ inputs0[hiddenzone_key(h)].leaf_is_emerged
    /\ lamina_id(h) \in DOMAIN inputs0
    /\ \/ inputs0[lamina_id(h)].is_growing
       \/ sheath_id(h) \in DOMAIN inputs0 /\ inputs0[sheath_id(h)].has_area

\* the emerged hidden zones of the step's inputs with a structural mass of 0
\* that feed an organ
EmptyFeeders ==
    {hiddenzone_key(h) : h \in {g \in Metamers : /\ inputs0[hiddenzone_key(g)].mstruct = Zero
                                                 /\ FeedsOrgan(g)}}

RatioOfNothing ==
    /\ lab.law = "ratio"
    /\ calculate_ratio_mstruct_DM_dry_mass(lab.mstruct, lab.sucrose, lab.fructans, lab.amino_acids, lab.proteins) = Zero

\* the records of the entities with no structural mass, and of the organs
\* they would feed, hold their input values
EmptyUnwritten ==
    \A k \in EmptyRoots \cup EmptyFeeders :
        /\ writers[k] = {}
        /\ OutView[k] = inputs0[k]
        /\ k[1] = "hiddenzone" =>
              \A ok \in Fed(k[2]) : hiddenzone_key(k[2]) \notin writers[ok]

\* C20 (the claim as stated): a step whose inputs hold a root with mstruct 0
\* or an emerged hidden zone with mstruct 0 that feeds an organ ends aborted
\* by a division fault, with nothing written for that entity, and a call of
\* the ratio law with a total dry mass of 0 raises and returns no value.
C20_DivisionFault ==
    /\ (InRun /\ EmptyRoots \cup EmptyFeeders # {}) =>
          /\ pc # "done"
          /\ pc = "aborted" => error = ZeroDivisionError
          /\ EmptyUnwritten
    /\ RatioOfNothing => (lab.raised /\ lab.result = Zero)

\* C20 (amended): such a step never completes; it is aborted by the division
\* fault, or by the lookup fault of a hidden zone whose organ record (or its
\* area) is missing when that one is visited first; in both cases nothing is
\* written for the entity with no structural mass.  The call of the ratio law with a total
\* dry mass of 0 raises and returns no value.
C20_FaultAborts ==
    /\ (InRun /\ EmptyRoots \cup EmptyFeeders # {}) =>
          /\ pc # "done"
          /\ pc = "aborted" =>
                \/ error = ZeroDivisionError
                \/ \E h \in Metamers : error.type = "KeyError" /\ error = hiddenzone_error(inputs0, h)
          /\ EmptyUnwritten
    /\ RatioOfNothing => (lab.raised /\ lab.result = Zero)

\* C20 witness: a step with a root of mstruct 0 was aborted by the division
\* fault after both hidden zones were visited, and the ratio law was called
\* on a structural mass of 1 g with a total dry mass of 0
C20_Witness ==
    /\ pc = "aborted" /\ error = ZeroDivisionError
    /\ EmptyRoots # {} /\ EmptyFeeders = {}
    /\ \A h \in Metamers : Visited(h)
    /\ RatioOfNothing /\ lab.mstruct = One

\* ------------------------------------------------------------------------
\* The converter: a snapshot is four mappings from identifier tuple to
\* record; a dataframe is a list of column names and a list of rows
\* ------------------------------------------------------------------------

HIDDENZONE_TOPOLOGY_COLUMNS == <<"plant", "axis", "metamer">>
ELEMENT_TOPOLOGY_COLUMNS == <<"plant", "axis", "metamer", "organ", "element">>
ROOT_TOPOLOGY_COLUMNS == <<"plant", "axis", "organ">>
SAM_TOPOLOGY_COLUMNS == <<"plant", "axis">>

HIDDENZONE_OUTPUTS == <<"sucrose", "amino_acids", "mstruct">>
ELEMENT_OUTPUTS == <<"sucrose", "amino_acids", "mstruct">>
ROOT_OUTPUTS == <<"sucrose", "amino_acids", "mstruct", "Nstruct">>

SeqRange(s) == {s[i] : i \in DOMAIN s}
ColumnIndex(columns, c) == CHOOSE i \in DOMAIN columns : columns[i] = c

\* the identifiers of each kind in the order sort_values gives them
HiddenzoneIds == << <<1, "MS", 1>>, <<1, "MS", 2>> >>
ElementIds == << <<1, "MS", 1, "blade", "LeafElement1">>, <<1, "MS", 1, "sheath", "StemElement">> >>
RootIds == << <<1, "MS", "roots">>, <<1, "T1", "roots">> >>
SAMIds == << <<1, "MS">>, <<1, "T1">> >>

\* pd.DataFrame(keys) beside pd.DataFrame(values), sorted by the topology
\* columns and reindexed on topology + outputs: a field outside the list is
\* dropped, a listed field the record lacks is NaN
DataFrame(current_data_dict, current_topology_columns, current_outputs_names, sorted_ids) ==
    LET ids == SelectSeq(sorted_ids, LAMBDA id : id \in DOMAIN current_data_dict)
        current_columns_sorted == current_topology_columns \o current_outputs_names
        row(id) == [c \in SeqRange(current_columns_sorted) |->
                       IF c \in SeqRange(current_topology_columns)
                       THEN id[ColumnIndex(current_topology_columns, c)]
                       ELSE IF c \in DOMAIN current_data_dict[id]
                            THEN current_data_dict[id][c]
                            ELSE NaN]
    IN  [columns |-> current_columns_sorted, rows |-> [i \in DOMAIN ids |-> row(ids[i])]]

to_dataframes(data_dict) ==
    [hiddenzone |-> DataFrame(data_dict.hiddenzone, HIDDENZONE_TOPOLOGY_COLUMNS, HIDDENZONE_OUTPUTS, HiddenzoneIds),
     elements |-> DataFrame(data_dict.elements, ELEMENT_TOPOLOGY_COLUMNS, ELEMENT_OUTPUTS, ElementIds),
     roots |-> DataFrame(data_dict.roots, ROOT_TOPOLOGY_COLUMNS, ROOT_OUTPUTS, RootIds)]

\* groupby(topology columns): the group identifier of a row, and the first row
\* of each group
GroupId(row, topology_columns) == [i \in DOMAIN topology_columns |-> row[topology_columns[i]]]
GroupIds(df, topology_columns) == {GroupId(df.rows[i], topology_columns) : i \in DOMAIN df.rows}
FirstRow(df, topology_columns, id) ==
    df.rows[CHOOSE i \in DOMAIN df.rows :
                /\ GroupId(df.rows[i], topology_columns) = id
                /\ \A j \in DOMAIN df.rows : GroupId(df.rows[j], topology_columns) = id => i <= j]

\* columns.difference(topology columns)
inputs_columns(df, topology_columns) == SeqRange(df.columns) \ SeqRange(topology_columns)

\* the loop of one kind: series[columns].to_dict() of the first row of each group
from_dataframe(df, topology_columns) ==
    [id \in GroupIds(df, topology_columns) |->
        [c \in inputs_columns(df, topology_columns) |-> FirstRow(df, topology_columns, id)[c]]]

\* the SAM loop groups the ROOT dataframe by (plant, axis) and selects the SAM
\* columns in the root row; a column the root row lacks is a KeyError or, with
\* a pandas that reindexes, NaN
SAM_missing_columns(root_inputs, SAM_inputs) ==
    inputs_columns(SAM_inputs, SAM_TOPOLOGY_COLUMNS) \ SeqRange(root_inputs.columns)

SAM_from_dataframe_roots(root_inputs, SAM_inputs) ==
    [id \in GroupIds(root_inputs, SAM_TOPOLOGY_COLUMNS) |->
        [c \in inputs_columns(SAM_inputs, SAM_TOPOLOGY_COLUMNS) |->
            IF c \in SeqRange(root_inputs.columns)
            THEN FirstRow(root_inputs, SAM_TOPOLOGY_COLUMNS, id)[c]
            ELSE NaN]]

from_dataframes_raises(root_inputs, SAM_inputs, strict) ==
    /\ strict
    /\ root_inputs.rows # <<>>
    /\ SAM_missing_columns(root_inputs, SAM_inputs) # {}

from_dataframes(hiddenzone_inputs, element_inputs, root_inputs, SAM_inputs) ==
    [hiddenzone |-> from_dataframe(hiddenzone_inputs, HIDDENZONE_TOPOLOGY_COLUMNS),
     elements |-> from_dataframe(element_inputs, ELEMENT_TOPOLOGY_COLUMNS),
     roots |-> from_dataframe(root_inputs, ROOT_TOPOLOGY_COLUMNS),
     SAM |-> SAM_from_dataframe_roots(root_inputs, SAM_inputs)]

\* the snapshots of the converter runs: every record holds exactly the listed
\* fields of its kind
ConvValues == {One, RI(2)}
SAM_FIELDS == <<"sum_TT", "nb_leaves">>
ConvRecord(names, v, w) == [c \in SeqRange(names) |-> IF c = names[1] THEN v ELSE w]
ConvMappings(sorted_ids, names) ==
    {[id \in ids |-> ConvRecord(names, v, IF id = sorted_ids[1] THEN One ELSE RI(3))] :
        ids \in SUBSET SeqRange(sorted_ids), v \in ConvValues}

Snapshots ==
    [hiddenzone : {m \in ConvMappings(HiddenzoneIds, HIDDENZONE_OUTPUTS) : DOMAIN m # {}},
     elements : {m \in ConvMappings(ElementIds, ELEMENT_OUTPUTS) : m = <<>> \/ ElementIds[1] \in DOMAIN m},
     roots : {m \in ConvMappings(RootIds, ROOT_OUTPUTS) : Cardinality(DOMAIN m) < 2},
     SAM : {m \in ConvMappings(SAMIds, SAM_FIELDS) : Cardinality(DOMAIN m) < 2}]

\* the SAM dataframe handed to from_dataframes: to_dataframes makes none, the
\* caller lays the SAM mapping out the same way
SAM_dataframe(data_dict) == DataFrame(data_dict.SAM, SAM_TOPOLOGY_COLUMNS, SAM_FIELDS, SAMIds)

NoFrames == [hiddenzone |-> <<>>, elements |-> <<>>, roots |-> <<>>]
NoSnapshot == [hiddenzone |-> <<>>, elements |-> <<>>, roots |-> <<>>, SAM |-> <<>>]

InitConverter ==
    /\ lab \in [law : {"snapshot"}, snapshot : Snapshots, frames : {NoFrames},
                back : {NoSnapshot}, raised : {FALSE}]
    /\ heap = <<>> /\ inputs = <<>> /\ outputs = <<>>
    /\ delta_t = Zero /\ opt_postflo = FALSE /\ is_post_flowering = FALSE
    /\ pc = "converter" /\ todo = {} /\ error = NoError /\ steps = 0
    /\ inputs0 = <<>> /\ outputs0 = <<>> /\ writers = <<>>

ToDataframes ==
    /\ lab.law = "snapshot"
    /\ lab' = [lab EXCEPT !.law = "frames", !.frames = to_dataframes(lab.snapshot)]
    /\ UNCHANGED simVars

FromDataframes ==
    /\ lab.law = "frames"
    /\ \E strict \in BOOLEAN :
          LET SAM_inputs == SAM_dataframe(lab.snapshot)
          IN  IF from_dataframes_raises(lab.frames.roots, SAM_inputs, strict)
              THEN lab' = [lab EXCEPT !.law = "back", !.raised = TRUE]
              ELSE lab' = [lab EXCEPT !.law = "back",
                                      !.back = from_dataframes(lab.frames.hiddenzone, lab.frames.elements,
                                                               lab.frames.roots, SAM_inputs)]
    /\ UNCHANGED simVars

NextConverter ==
    \/ ToDataframes
    \/ FromDataframes

SpecConverter == InitConverter /\ [][NextConverter]_vars

\* C17 (the claim as stated): to_dataframes followed by from_dataframes gives
\* back a snapshot with the same identifiers and the same value in every
\* non-identifier field of every hiddenzone, element, root and SAM.
C17_RoundTrip ==
    lab.law = "back" => (~lab.raised /\ lab.back = lab.snapshot)

\* the three kinds to_dataframes lays out do come back unchanged
C17_ThreeKindsRoundTrip ==
    (lab.law = "back" /\ ~lab.raised) =>
        /\ lab.back.hiddenzone = lab.snapshot.hiddenzone
        /\ lab.back.elements = lab.snapshot.elements
        /\ lab.back.roots = lab.snapshot.roots

\* ------------------------------------------------------------------------
\* Calls of single laws: the root growth law at two sucrose amounts, the
\* emergence test beside the lamina length, and an organ followed through
\* the calls of its enclosed-mass law as its pseudo-age advances
\* ------------------------------------------------------------------------

\* sucrose amounts that put sucrose/mstruct at 0, K_ROOTS_GROWTH and 32 *
\* K_ROOTS_GROWTH (where the power 1.8 of the saturation term is exact)
RootCallSucrose(mstruct) == {RMul(RI(c), mstruct) : c \in {-K_ROOTS_GROWTH, 0, K_ROOTS_GROWTH, 32 * K_ROOTS_GROWTH}}

RootCalls ==
    UNION {[law : {"rootcall"}, sucrose : RootCallSucrose(m), more_sucrose : RootCallSucrose(m),
            mstruct : {m}, delta_t : {RI(40000), RI(80000)}, opt_postflo : BOOLEAN,
            growth : {Zero}, more_growth : {Zero}] : m \in {One, RI(2)}}

EmergenceCalls ==
    [law : {"laminacall"}, leaf_L : {NaN, Zero, One, RI(2), RI(3)},
     hgz_L : {NaN, Zero, One, RI(2), RI(3)}, emerged : {FALSE}, raised : {FALSE}, lamina_L : {NaN}]

\* the number of calls an organ is followed through, and the increments of
\* its pseudo-age
MaxCalls == 4
DeltaAges == {Zero, One, RI(2)}

OrganStarts ==
    [law : {"organ"}, organ : {"leaf", "internode"}, pseudo_age : {RI(-3), RI(-1)},
     L : {One}, pseudostem_L : {RI(2)}, Lmax : {NaN, RI(3)}, SW : {One, RI(2)},
     enclosed_mstruct : {Zero, One}, delta : {Zero}, was_terminal : {FALSE}, idle : {0},
     calls : {0}]

\* the end of elongation of an organ
OrganEnd(organ) == IF organ = "leaf" THEN te ELSE te_IN

\* pseudo-ages are kept relative to the end of elongation of the organ
OrganAge(o) == RAdd(RI(OrganEnd(o.organ)), o.pseudo_age)

InitCalls ==
    /\ lab \in RootCalls \cup EmergenceCalls \cup OrganStarts
    /\ heap = <<>> /\ inputs = <<>> /\ outputs = <<>>
    /\ delta_t = Zero /\ opt_postflo = FALSE /\ is_post_flowering = FALSE
    /\ pc = "calls" /\ todo = {} /\ error = NoError /\ steps = 0
    /\ inputs0 = <<>> /\ outputs0 = <<>> /\ writers = <<>>

ApplyRootsGrowth ==
    /\ lab.law = "rootcall"
    /\ lab' = [lab EXCEPT !.law = "roots",
                          !.growth = calculate_roots_mstruct_growth(lab.sucrose, RI(10), lab.mstruct, lab.delta_t, lab.opt_postflo)[1],
                          !.more_growth = calculate_roots_mstruct_growth(lab.more_sucrose, RI(10), lab.mstruct, lab.delta_t, lab.opt_postflo)[1]]
    /\ UNCHANGED simVars

ApplyLaminaL ==
    /\ lab.law = "laminacall"
    /\ lab' = [lab EXCEPT !.law = "lamina",
                          !.emerged = calculate_leaf_emergence(lab.leaf_L, lab.hgz_L),
                          !.raised = calculate_lamina_L_raises(lab.leaf_L, lab.hgz_L),
                          !.lamina_L = IF calculate_lamina_L_raises(lab.leaf_L, lab.hgz_L) THEN NaN
                                       ELSE calculate_lamina_L(lab.leaf_L, lab.hgz_L)]
    /\ UNCHANGED simVars

\* the delta of the organ's law at its present pseudo-age
OrganLawDelta(o, delta_pseudo_age) ==
    IF o.organ = "leaf"
    THEN calculate_delta_leaf_enclosed_mstruct_postE(delta_pseudo_age, OrganAge(o), o.pseudostem_L, o.enclosed_mstruct, o.SW)
    ELSE calculate_delta_internode_enclosed_mstruct_postL(delta_pseudo_age, OrganAge(o), o.L, o.pseudostem_L, o.Lmax, o.SW, o.enclosed_mstruct)

\* one step of an organ: the law is called with the pseudo-age and the
\* increment of the step, the delta is added to the enclosed mass and the
\* pseudo-age advances; the pseudostem may have grown meanwhile
StepOrgan ==
    /\ lab.law = "organ"
    /\ lab.calls < MaxCalls
    /\ \E delta_pseudo_age \in DeltaAges, grown \in {Zero, One} :
          \E d \in {OrganLawDelta(lab, delta_pseudo_age)} :
              lab' = [lab EXCEPT !.delta = d,
                                 !.enclosed_mstruct = RAdd(@, d),
                                 !.pseudo_age = RAdd(@, delta_pseudo_age),
                                 !.pseudostem_L = RAdd(@, grown),
                                 !.was_terminal = ~RIsNeg(lab.pseudo_age),
                                 !.idle = IF RIsNeg(lab.pseudo_age) THEN 0 ELSE @ + 1,
                                 !.calls = @ + 1]
    /\ UNCHANGED simVars

NextCalls ==
    \/ ApplyRootsGrowth
    \/ ApplyLaminaL
    \/ StepOrgan

SpecCalls == InitCalls /\ [][NextCalls]_vars

\* the carbon a call of the root law consumed per unit time and per unit
\* structural mass
RootRate(growth) == RDiv(growth, RMul(lab.delta_t, lab.mstruct))

C25_TerminalAbsorbing ==
    [][(lab.law = "organ" /\ ~RIsNeg(lab.pseudo_age)) =>
          /\ lab'.delta = Zero
          /\ lab'.enclosed_mstruct = lab.enclosed_mstruct
          /\ ~RIsNeg(lab'.pseudo_age)]_vars

\* C25 witness: an organ that grew while elongating has been through two
\* calls in the terminal state, its enclosed mass short of or past the
\* ceiling of pseudostem length x lineic weight
C25_Witness ==
    /\ lab.law = "organ"
    /\ lab.idle >= 2
    /\ lab.enclosed_mstruct \notin {Zero, One}
    /\ lab.enclosed_mstruct # RMul(lab.pseudostem_L, lab.SW)

\* C29 (the claim as stated): calculate_lamina_L returns leaf_L - hgz_L, a
\* strictly positive length, exactly when calculate_leaf_emergence is true,
\* and raises otherwise.
C29_EmergenceAgrees ==
    lab.law = "lamina" =>
        /\ lab.emerged <=> ~lab.raised
        /\ ~lab.raised => (lab.lamina_L = RSub(lab.leaf_L, lab.hgz_L) /\ RIsPos(lab.lamina_L))

\* for lengths that are numbers the two laws do agree
C29_NumbersAgree ==
    (lab.law = "lamina" /\ ~isnan(lab.leaf_L) /\ ~isnan(lab.hgz_L)) =>
        /\ lab.emerged <=> ~lab.raised
        /\ ~lab.raised => (lab.lamina_L = RSub(lab.leaf_L, lab.hgz_L) /\ RIsPos(lab.lamina_L))

====
